---- MODULE Spec2Model ----
(***************************************************************************)
(* State-machine model of src/UI_project/app.jsx: the App coordinator      *)
(* (dataset load, view, active criterion), the SearchPage (advanced        *)
(* selection + FilterSentence quick search) and the ResultsPage (cursor,   *)
(* refine sidebar, tag-pivot confirmation, per-image display state).       *)
(*                                                                         *)
(* React specifics that are modelled:                                      *)
(*  - a component's state exists only while it is mounted: SearchPage and  *)
(*    ResultsPage are rendered alternatively by App.renderView, so the     *)
(*    state of the page that is not rendered is held at its useState       *)
(*    initial value;                                                       *)
(*  - an event handler's setState calls are batched into one render;       *)
(*  - useEffect callbacks run after that render has been committed, so a   *)
(*    render with the new props and the old state is a state of its own    *)
(*    (EffectsPending); React flushes pending effects before it            *)
(*    dispatches the next event.                                           *)
(* Tag arrays are represented by their sets of elements: the code reads    *)
(* them only through every/includes/new Set.                               *)
(***************************************************************************)
EXTENDS Integers, Sequences, FiniteSets, TLC

\* ------------------------------------------------------------------ bounds
MaxImages == 3

\* --------------------------------------------------------------- constants
NULL == "null"

\* The value of useRef-less "no previous render" for effect dependencies.
NoImage == [imageUrl |-> NULL, architect |-> NULL, hasTags |-> FALSE, tags |-> {}]

\* Image records the dataset file may hold (spec.md section 8 scenario: A, B;
\* C has neither architect nor tags; D is used by larger datasets).
ImagePool ==
  << [imageUrl |-> "A", architect |-> "Foo", hasTags |-> TRUE,  tags |-> {"Arch", "Window"}],
     [imageUrl |-> "B", architect |-> "Bar", hasTags |-> TRUE,  tags |-> {"Arch"}],
     [imageUrl |-> "C", architect |-> NULL,  hasTags |-> FALSE, tags |-> {}],
     [imageUrl |-> "D", architect |-> "Foo", hasTags |-> TRUE,  tags |-> {"Window"}],
     [imageUrl |-> "E", architect |-> "Bar", hasTags |-> TRUE,  tags |-> {"Arch", "Window"}] >>

Taxonomy ==
  << [category |-> "Form",
      subCategories |->
        << [name |-> "Structure", tags |-> <<"Arch", "Window">>],
           [name |-> "Setting",   tags |-> <<"Nonexistent">>] >>] >>

LoadErrors == {"Failed to fetch", "HTTP error! status: 404",
               "Unexpected token", "JSON data missing 'taxonomy' or 'images'."}

SearchPageErrorMsg == "No images found matching the selected criteria."
SidebarErrorMsg    == "No images found matching the selected filters."

SlotKeys == {"architecturalElement", "architect", "setting", "style"}

\* --------------------------------------------------------------- variables
VARIABLES
  \* App
  view, appData, loading, error, currentSearchCriteria,
  \* SearchPage + FilterSentence
  selectedTags, selectedArchitect, searchError, slotValues,
  \* ResultsPage
  currentIndex, showConfirmModal, tagToSearch, imageLoading, imageError,
  isSidebarOpen, sidebarSelectedTags, sidebarSelectedArchitect, sidebarSearchError,
  \* ResultsPage effect bookkeeping (dependency arrays of the last effect run)
  criteriaDirty, imageDeps,
  \* the handler that committed the active criterion had evaluated it
  \* against the image list
  commitValidated,
  \* the ResultsPage instance being mounted follows a Home that left a
  \* results session with a moved cursor, an open sidebar, an edited draft
  \* and a pending pivot
  leftSession,
  \* name of the last event handler that ran
  lastEvent

appVars     == <<view, appData, loading, error, currentSearchCriteria>>
searchVars  == <<selectedTags, selectedArchitect, searchError, slotValues>>
resultsVars == <<currentIndex, showConfirmModal, tagToSearch, imageLoading, imageError,
                 isSidebarOpen, sidebarSelectedTags, sidebarSelectedArchitect,
                 sidebarSearchError>>
effectVars  == <<criteriaDirty, imageDeps, commitValidated, leftSession>>
vars        == <<appVars, searchVars, resultsVars, effectVars, lastEvent>>

\* ------------------------------------------------------------ pure helpers
\* JavaScript truthiness of a string-or-null value.
Truthy(x) == x \notin {NULL, ""}

\* x || null
OrNull(x) == IF Truthy(x) THEN x ELSE NULL

Range(s) == {s[i] : i \in 1..Len(s)}

EmptyCriteria == [tags |-> {}, architect |-> NULL]

EmptySlots == [k \in SlotKeys |-> NULL]

\* [...new Set(images.map(img => img.architect).filter(Boolean))]
uniqueArchitects(images) ==
  {images[i].architect : i \in {j \in 1..Len(images) : Truthy(images[j].architect)}}

\* FilterSentence.allTags[name] || []
allTags(name) ==
  UNION {UNION {Range(appData.taxonomy[c].subCategories[s].tags) :
                  s \in {k \in 1..Len(appData.taxonomy[c].subCategories) :
                           appData.taxonomy[c].subCategories[k].name = name}} :
           c \in 1..Len(appData.taxonomy)}

\* every tag button TaxonomyBrowser renders
TaxonomyTags ==
  UNION {UNION {Range(appData.taxonomy[c].subCategories[s].tags) :
                  s \in 1..Len(appData.taxonomy[c].subCategories)} :
           c \in 1..Len(appData.taxonomy)}

\* FilterSentence.template: the options of each slot
SlotOptions(key) ==
  CASE key = "architecturalElement" -> allTags("Structure")
    [] key = "architect"            -> uniqueArchitects(appData.images)
    [] key = "setting"              -> allTags("Setting")
    [] key = "style"                -> allTags("Styles")

\* the images.filter(...) of SearchPage.handleSearch
SearchPageResults(criteria) ==
  LET Test(img) ==
        LET archMatch == (~Truthy(criteria.architect)) \/ img.architect = criteria.architect
            tagsMatch == \A tag \in criteria.tags : img.hasTags /\ tag \in img.tags
        IN  archMatch /\ tagsMatch
  IN  SelectSeq(appData.images, Test)

\* mutant of FilteredImagesFor: tags.some instead of tags.every
FilteredImagesFor_some(searchCriteria) ==
  LET Test(img) ==
        LET archMatch == (~Truthy(searchCriteria.architect)) \/ img.architect = searchCriteria.architect
            tagsMatch == \E tag \in searchCriteria.tags : img.hasTags /\ tag \in img.tags
        IN  archMatch /\ tagsMatch
  IN  SelectSeq(appData.images, Test)

\* the useMemo of ResultsPage.filteredImages, for a given searchCriteria prop
FilteredImagesFor(searchCriteria) ==
  LET Test(img) ==
        LET archMatch == (~Truthy(searchCriteria.architect)) \/ img.architect = searchCriteria.architect
            tagsMatch == \A tag \in searchCriteria.tags : img.hasTags /\ tag \in img.tags
        IN  archMatch /\ tagsMatch
  IN  SelectSeq(appData.images, Test)

\* the images.filter(...) of ResultsPage.handleUpdateSearch
ProspectiveResults(newCriteria) ==
  LET Test(img) ==
        LET archMatch == (~Truthy(newCriteria.architect)) \/ img.architect = newCriteria.architect
            tagsMatch == \A tag \in newCriteria.tags : img.hasTags /\ tag \in img.tags
        IN  archMatch /\ tagsMatch
  IN  SelectSeq(appData.images, Test)

filteredImages == FilteredImagesFor(currentSearchCriteria)

totalImages == Len(filteredImages)

\* totalImages > 0 ? filteredImages[currentIndex] : null   (undefined when out of range)
currentImage ==
  IF totalImages > 0 /\ currentIndex + 1 \in 1..totalImages
    THEN filteredImages[currentIndex + 1]
    ELSE NoImage

ImageShown == totalImages > 0 /\ currentImage # NoImage

\* the render of ResultsPage has effects that have not run yet
EffectsPending ==
  /\ view = "results"
  /\ criteriaDirty \/ imageDeps # <<currentIndex, currentImage>>

\* App.renderView: what the application shows
Rendered ==
  IF loading THEN "loading"
  ELSE IF Truthy(error) THEN "error"
  ELSE IF view = "results" THEN "results" ELSE "search"

\* an event handler of a rendered page can run
SearchPageReady  == ~loading /\ error = NULL /\ view = "search"
ResultsPageReady == ~loading /\ error = NULL /\ view = "results" /\ ~EffectsPending

\* ------------------------------------------------------------------- Init
ResultsInitial(criteria) ==
  /\ currentIndex' = 0
  /\ showConfirmModal' = FALSE
  /\ tagToSearch' = NULL
  /\ imageLoading' = TRUE
  /\ imageError' = FALSE
  /\ isSidebarOpen' = FALSE
  /\ sidebarSelectedTags' = criteria.tags
  /\ sidebarSelectedArchitect' = OrNull(criteria.architect)
  /\ sidebarSearchError' = NULL

SearchInitial ==
  /\ selectedTags' = {}
  /\ selectedArchitect' = NULL
  /\ searchError' = NULL
  /\ slotValues' = EmptySlots

Init ==
  /\ view = "search"
  /\ appData = [taxonomy |-> <<>>, images |-> <<>>]
  /\ loading = TRUE
  /\ error = NULL
  /\ currentSearchCriteria = EmptyCriteria
  /\ selectedTags = {}
  /\ selectedArchitect = NULL
  /\ searchError = NULL
  /\ slotValues = EmptySlots
  /\ currentIndex = 0
  /\ showConfirmModal = FALSE
  /\ tagToSearch = NULL
  /\ imageLoading = TRUE
  /\ imageError = FALSE
  /\ isSidebarOpen = FALSE
  /\ sidebarSelectedTags = {}
  /\ sidebarSelectedArchitect = NULL
  /\ sidebarSearchError = NULL
  /\ criteriaDirty = FALSE
  /\ commitValidated = FALSE
  /\ leftSession = FALSE
  /\ imageDeps = <<-1, NoImage>>
  /\ lastEvent = "mount"

\* ------------------------------------------------------- App: data loading
LoadData(n) ==
  /\ loading
  /\ appData' = [taxonomy |-> Taxonomy, images |-> SubSeq(ImagePool, 1, n)]
  /\ loading' = FALSE
  /\ lastEvent' = "loadData"
  /\ UNCHANGED <<view, error, currentSearchCriteria, searchVars, resultsVars, effectVars>>

\* mutant of LoadError: the catch handler leaves loading set
LoadError_staysLoading(msg) ==
  /\ loading
  /\ error' = msg
  /\ lastEvent' = "loadError"
  /\ UNCHANGED <<view, appData, loading, currentSearchCriteria, searchVars, resultsVars, effectVars>>

LoadError(msg) ==
  /\ loading
  /\ error' = msg
  /\ loading' = FALSE
  /\ lastEvent' = "loadError"
  /\ UNCHANGED <<view, appData, currentSearchCriteria, searchVars, resultsVars, effectVars>>

\* ------------------------------------------------------ App: view changes
\* App.handleSearch called by the SearchPage: renderView replaces the
\* SearchPage by a freshly mounted ResultsPage, whose effects all run.
App_handleSearch_fromSearchPage(criteria) ==
  /\ currentSearchCriteria' = criteria
  /\ view' = "results"
  /\ SearchInitial
  /\ ResultsInitial(criteria)
  /\ criteriaDirty' = TRUE
  /\ imageDeps' = <<-1, NoImage>>
  /\ UNCHANGED <<appData, loading, error>>

\* App.handleSearch called by the ResultsPage (onSearchTag): the page stays
\* mounted and re-renders with a new searchCriteria object.
App_handleSearch_fromResultsPage(criteria) ==
  /\ currentSearchCriteria' = criteria
  /\ view' = "results"
  /\ criteriaDirty' = TRUE
  /\ UNCHANGED <<appData, loading, error, imageDeps>>

\* the results session has a moved cursor, an open sidebar, an edited draft
\* and a pending pivot
SessionInUse ==
  /\ currentIndex > 0 /\ isSidebarOpen /\ showConfirmModal
  /\ <<sidebarSelectedTags, sidebarSelectedArchitect>>
       # <<currentSearchCriteria.tags, currentSearchCriteria.architect>>

\* mutant of handleHome: the ResultsPage keeps its state when it is left
handleHome_keepsPage ==
  /\ ResultsPageReady
  /\ view' = "search"
  /\ currentSearchCriteria' = EmptyCriteria
  /\ criteriaDirty' = FALSE
  /\ commitValidated' = FALSE
  /\ leftSession' = SessionInUse
  /\ imageDeps' = <<-1, NoImage>>
  /\ lastEvent' = "handleHome"
  /\ UNCHANGED <<appData, loading, error, searchVars, resultsVars>>

\* App.handleHome, through the Home button of the ResultsPage
handleHome ==
  /\ ResultsPageReady
  /\ view' = "search"
  /\ currentSearchCriteria' = EmptyCriteria
  /\ ResultsInitial(EmptyCriteria)
  /\ criteriaDirty' = FALSE
  /\ commitValidated' = FALSE
  /\ leftSession' = SessionInUse
  /\ imageDeps' = <<-1, NoImage>>
  /\ lastEvent' = "handleHome"
  /\ UNCHANGED <<appData, loading, error, searchVars>>

\* ------------------------------------------------------------- SearchPage
\* mutant of toggleTag: a one-way add
toggleTag_addOnly(prev, tag) == prev \cup {tag}

\* the setSelectedTags updater of SearchPage.handleTagSelect
toggleTag(prev, tag) ==
  IF tag \in prev THEN prev \ {tag} ELSE prev \cup {tag}

handleTagSelect(tag) ==
  /\ SearchPageReady
  /\ tag \in TaxonomyTags
  /\ searchError' = NULL
  /\ selectedTags' = toggleTag(selectedTags, tag)
  /\ lastEvent' = "handleTagSelect"
  /\ UNCHANGED <<appVars, selectedArchitect, slotValues, resultsVars, effectVars>>

\* mutant of ArchitectSelector_handleChange: the clicked value is always passed on
ArchitectSelector_handleChange_noToggle(selected, architect) == architect

\* ArchitectSelector.handleChange: the value handed to onArchitectSelect
ArchitectSelector_handleChange(selected, architect) ==
  IF selected = architect THEN NULL ELSE architect

\* a radio button of the ArchitectSelector, feeding SearchPage.handleArchitectSelect
handleArchitectSelect(architect) ==
  /\ SearchPageReady
  /\ architect \in uniqueArchitects(appData.images) \cup {NULL}
  /\ searchError' = NULL
  /\ selectedArchitect' = ArchitectSelector_handleChange(selectedArchitect, architect)
  /\ lastEvent' = "handleArchitectSelect"
  /\ UNCHANGED <<appVars, selectedTags, slotValues, resultsVars, effectVars>>

removeTag(tagToRemove) ==
  /\ SearchPageReady
  /\ tagToRemove \in selectedTags
  /\ selectedTags' = selectedTags \ {tagToRemove}
  /\ lastEvent' = "removeTag"
  /\ UNCHANGED <<appVars, selectedArchitect, searchError, slotValues, resultsVars, effectVars>>

removeArchitect ==
  /\ SearchPageReady
  /\ Truthy(selectedArchitect)
  /\ selectedArchitect' = NULL
  /\ lastEvent' = "removeArchitect"
  /\ UNCHANGED <<appVars, selectedTags, searchError, slotValues, resultsVars, effectVars>>

handleSlotSelect(key, value) ==
  /\ SearchPageReady
  /\ value \in SlotOptions(key)
  /\ slotValues' = [slotValues EXCEPT ![key] = value]
  /\ lastEvent' = "handleSlotSelect"
  /\ UNCHANGED <<appVars, selectedTags, selectedArchitect, searchError, resultsVars, effectVars>>

handleSlotClear(key) ==
  /\ SearchPageReady
  /\ Truthy(slotValues[key])
  /\ slotValues' = [slotValues EXCEPT ![key] = NULL]
  /\ lastEvent' = "handleSlotClear"
  /\ UNCHANGED <<appVars, selectedTags, selectedArchitect, searchError, resultsVars, effectVars>>

\* mutant of SearchPage_handleSearch: commits without looking at the results
SearchPage_handleSearch_noValidation(criteria) ==
  IF Len(SearchPageResults(criteria)) >= 0
    THEN App_handleSearch_fromSearchPage(criteria) /\ commitValidated' = TRUE /\ UNCHANGED leftSession
    ELSE /\ searchError' = SearchPageErrorMsg
         /\ UNCHANGED <<appVars, selectedTags, selectedArchitect, slotValues,
                        resultsVars, effectVars>>

\* SearchPage.handleSearch(criteria): validate, then commit or report
SearchPage_handleSearch(criteria) ==
  IF Len(SearchPageResults(criteria)) > 0
    THEN App_handleSearch_fromSearchPage(criteria) /\ commitValidated' = TRUE /\ UNCHANGED leftSession
    ELSE /\ searchError' = SearchPageErrorMsg
         /\ UNCHANGED <<appVars, selectedTags, selectedArchitect, slotValues,
                        resultsVars, effectVars>>

hasSelection == Cardinality(selectedTags) > 0 \/ Truthy(selectedArchitect)

\* mutant of advancedSearch: the button is shown with nothing selected
advancedSearch_alwaysShown ==
  /\ SearchPageReady
  /\ SearchPage_handleSearch([tags |-> selectedTags, architect |-> selectedArchitect])
  /\ lastEvent' = "advancedSearch"

\* the "Search Images" button of the advanced search
advancedSearch ==
  /\ SearchPageReady
  /\ hasSelection
  /\ SearchPage_handleSearch([tags |-> selectedTags, architect |-> selectedArchitect])
  /\ lastEvent' = "advancedSearch"

\* the criterion FilterSentence.handleSearch builds from the slots
SlotCriteria ==
  [tags      |-> {slotValues[k] : k \in {j \in SlotKeys \ {"architect"} : slotValues[j] # NULL}},
   architect |-> OrNull(slotValues["architect"])]

\* FilterSentence.handleSearch, through the quick search "Search Images" button
FilterSentence_handleSearch ==
  /\ SearchPageReady
  /\ \E k \in SlotKeys : slotValues[k] # NULL
  /\ IF Cardinality(SlotCriteria.tags) > 0 \/ Truthy(SlotCriteria.architect)
       THEN SearchPage_handleSearch(SlotCriteria)
       ELSE UNCHANGED <<appVars, searchVars, resultsVars, effectVars>>
  /\ lastEvent' = "quickSearch"

\* ------------------------------------------------------------ ResultsPage
\* mutant of NextIndex: the modulo is dropped
NextIndex_noWrap(prevIndex, total) == prevIndex + 1

\* (prevIndex + 1) % totalImages
NextIndex(prevIndex, total) == (prevIndex + 1) % total

\* (prevIndex - 1 + totalImages) % totalImages
PreviousIndex(prevIndex, total) == (prevIndex - 1 + total) % total

\* the Next / Previous buttons are rendered when totalImages > 1
handleNext ==
  /\ ResultsPageReady
  /\ ImageShown /\ totalImages > 1
  /\ currentIndex' = NextIndex(currentIndex, totalImages)
  /\ lastEvent' = "handleNext"
  /\ UNCHANGED <<appVars, searchVars, showConfirmModal, tagToSearch, imageLoading,
                 imageError, isSidebarOpen, sidebarSelectedTags,
                 sidebarSelectedArchitect, sidebarSearchError, effectVars>>

handlePrevious ==
  /\ ResultsPageReady
  /\ ImageShown /\ totalImages > 1
  /\ currentIndex' = PreviousIndex(currentIndex, totalImages)
  /\ lastEvent' = "handlePrevious"
  /\ UNCHANGED <<appVars, searchVars, showConfirmModal, tagToSearch, imageLoading,
                 imageError, isSidebarOpen, sidebarSelectedTags,
                 sidebarSelectedArchitect, sidebarSearchError, effectVars>>

\* mutant of handleOtherTagClick: the search starts without confirmation
handleOtherTagClick_noConfirm(tag) ==
  /\ ResultsPageReady
  /\ ImageShown /\ currentImage.hasTags /\ tag \in currentImage.tags
  /\ App_handleSearch_fromResultsPage([tags |-> {tag}, architect |-> NULL])
  /\ commitValidated' = FALSE /\ UNCHANGED leftSession
  /\ tagToSearch' = tag
  /\ showConfirmModal' = TRUE
  /\ lastEvent' = "handleOtherTagClick"
  /\ UNCHANGED <<searchVars, currentIndex, imageLoading, imageError,
                 isSidebarOpen, sidebarSelectedTags, sidebarSelectedArchitect,
                 sidebarSearchError>>

\* a tag button under the displayed image
handleOtherTagClick(tag) ==
  /\ ResultsPageReady
  /\ ImageShown /\ currentImage.hasTags /\ tag \in currentImage.tags
  /\ tagToSearch' = tag
  /\ showConfirmModal' = TRUE
  /\ lastEvent' = "handleOtherTagClick"
  /\ UNCHANGED <<appVars, searchVars, currentIndex, imageLoading, imageError,
                 isSidebarOpen, sidebarSelectedTags, sidebarSelectedArchitect,
                 sidebarSearchError, effectVars>>

\* mutant of confirmNewSearch: the pivot narrows the active criterion
confirmNewSearch_narrows ==
  /\ ResultsPageReady
  /\ showConfirmModal
  /\ IF Truthy(tagToSearch)
       THEN /\ App_handleSearch_fromResultsPage(
                 [tags      |-> currentSearchCriteria.tags \cup {tagToSearch},
                  architect |-> currentSearchCriteria.architect])
            /\ commitValidated' = FALSE /\ UNCHANGED leftSession
       ELSE UNCHANGED <<appVars, effectVars>>
  /\ showConfirmModal' = FALSE
  /\ tagToSearch' = NULL
  /\ lastEvent' = "confirmNewSearch"
  /\ UNCHANGED <<searchVars, currentIndex, imageLoading, imageError, isSidebarOpen,
                 sidebarSelectedTags, sidebarSelectedArchitect, sidebarSearchError>>

\* mutant of confirmNewSearch: the active architect is carried over
confirmNewSearch_keepsArchitect ==
  /\ ResultsPageReady
  /\ showConfirmModal
  /\ IF Truthy(tagToSearch)
       THEN /\ App_handleSearch_fromResultsPage(
                 [tags |-> {tagToSearch}, architect |-> currentSearchCriteria.architect])
            /\ commitValidated' = FALSE /\ UNCHANGED leftSession
       ELSE UNCHANGED <<appVars, effectVars>>
  /\ showConfirmModal' = FALSE
  /\ tagToSearch' = NULL
  /\ lastEvent' = "confirmNewSearch"
  /\ UNCHANGED <<searchVars, currentIndex, imageLoading, imageError, isSidebarOpen,
                 sidebarSelectedTags, sidebarSelectedArchitect, sidebarSearchError>>

\* Confirm button of the ConfirmationModal
confirmNewSearch ==
  /\ ResultsPageReady
  /\ showConfirmModal
  /\ IF Truthy(tagToSearch)
       THEN /\ App_handleSearch_fromResultsPage([tags |-> {tagToSearch}, architect |-> NULL])
            /\ commitValidated' = FALSE /\ UNCHANGED leftSession
       ELSE UNCHANGED <<appVars, effectVars>>
  /\ showConfirmModal' = FALSE
  /\ tagToSearch' = NULL
  /\ lastEvent' = "confirmNewSearch"
  /\ UNCHANGED <<searchVars, currentIndex, imageLoading, imageError, isSidebarOpen,
                 sidebarSelectedTags, sidebarSelectedArchitect, sidebarSearchError>>

\* mutant of cancelNewSearch: the pending tag is kept when the modal closes
cancelNewSearch_keepsTag ==
  /\ ResultsPageReady
  /\ showConfirmModal
  /\ showConfirmModal' = FALSE
  /\ lastEvent' = "cancelNewSearch"
  /\ UNCHANGED <<appVars, searchVars, currentIndex, tagToSearch, imageLoading, imageError,
                 isSidebarOpen, sidebarSelectedTags, sidebarSelectedArchitect,
                 sidebarSearchError, effectVars>>

\* Cancel button of the ConfirmationModal
cancelNewSearch ==
  /\ ResultsPageReady
  /\ showConfirmModal
  /\ showConfirmModal' = FALSE
  /\ tagToSearch' = NULL
  /\ lastEvent' = "cancelNewSearch"
  /\ UNCHANGED <<appVars, searchVars, currentIndex, imageLoading, imageError,
                 isSidebarOpen, sidebarSelectedTags, sidebarSelectedArchitect,
                 sidebarSearchError, effectVars>>

\* onLoad of the <img>: fires once for an image that is still loading
handleImageLoad ==
  /\ ResultsPageReady
  /\ ImageShown /\ imageLoading
  /\ imageLoading' = FALSE
  /\ lastEvent' = "handleImageLoad"
  /\ UNCHANGED <<appVars, searchVars, currentIndex, showConfirmModal, tagToSearch,
                 imageError, isSidebarOpen, sidebarSelectedTags,
                 sidebarSelectedArchitect, sidebarSearchError, effectVars>>

\* onError of the <img>
handleImageError ==
  /\ ResultsPageReady
  /\ ImageShown /\ imageLoading
  /\ imageLoading' = FALSE
  /\ imageError' = TRUE
  /\ lastEvent' = "handleImageError"
  /\ UNCHANGED <<appVars, searchVars, currentIndex, showConfirmModal, tagToSearch,
                 isSidebarOpen, sidebarSelectedTags, sidebarSelectedArchitect,
                 sidebarSearchError, effectVars>>

toggleSidebar ==
  /\ ResultsPageReady
  /\ isSidebarOpen' = ~isSidebarOpen
  /\ lastEvent' = "toggleSidebar"
  /\ UNCHANGED <<appVars, searchVars, currentIndex, showConfirmModal, tagToSearch,
                 imageLoading, imageError, sidebarSelectedTags,
                 sidebarSelectedArchitect, sidebarSearchError, effectVars>>

\* mutant of handleSidebarTagSelect: the draft is written through to the
\* active criterion
handleSidebarTagSelect_writesThrough(tag) ==
  /\ ResultsPageReady
  /\ tag \in TaxonomyTags
  /\ sidebarSearchError' = NULL
  /\ sidebarSelectedTags' = IF tag \in sidebarSelectedTags
                              THEN sidebarSelectedTags \ {tag}
                              ELSE sidebarSelectedTags \cup {tag}
  /\ currentSearchCriteria' = [currentSearchCriteria EXCEPT !.tags = sidebarSelectedTags']
  /\ lastEvent' = "handleSidebarTagSelect"
  /\ UNCHANGED <<view, appData, loading, error, searchVars, currentIndex,
                 showConfirmModal, tagToSearch, imageLoading, imageError,
                 isSidebarOpen, sidebarSelectedArchitect, effectVars>>

\* the setSidebarSelectedTags updater of ResultsPage.handleSidebarTagSelect
sidebarToggleTag(prev, tag) ==
  IF tag \in prev THEN prev \ {tag} ELSE prev \cup {tag}

handleSidebarTagSelect(tag) ==
  /\ ResultsPageReady
  /\ tag \in TaxonomyTags
  /\ sidebarSearchError' = NULL
  /\ sidebarSelectedTags' = sidebarToggleTag(sidebarSelectedTags, tag)
  /\ lastEvent' = "handleSidebarTagSelect"
  /\ UNCHANGED <<appVars, searchVars, currentIndex, showConfirmModal, tagToSearch,
                 imageLoading, imageError, isSidebarOpen, sidebarSelectedArchitect,
                 effectVars>>

\* ResultsPage.handleSidebarArchitectSelect(architect): the value it stores
SidebarArchitectAfter(architect) ==
  IF sidebarSelectedArchitect = architect THEN NULL ELSE architect

\* mutant of handleSidebarArchitectSelect: the draft edit also rewinds the cursor
handleSidebarArchitectSelect_resetsCursor(architect) ==
  /\ ResultsPageReady
  /\ architect \in uniqueArchitects(appData.images) \cup {NULL}
  /\ sidebarSearchError' = NULL
  /\ sidebarSelectedArchitect' =
       SidebarArchitectAfter(ArchitectSelector_handleChange(sidebarSelectedArchitect, architect))
  /\ currentIndex' = 0
  /\ lastEvent' = "handleSidebarArchitectSelect"
  /\ UNCHANGED <<appVars, searchVars, showConfirmModal, tagToSearch,
                 imageLoading, imageError, isSidebarOpen, sidebarSelectedTags,
                 effectVars>>

\* a radio button of the sidebar's ArchitectSelector
handleSidebarArchitectSelect(architect) ==
  /\ ResultsPageReady
  /\ architect \in uniqueArchitects(appData.images) \cup {NULL}
  /\ sidebarSearchError' = NULL
  /\ sidebarSelectedArchitect' =
       SidebarArchitectAfter(ArchitectSelector_handleChange(sidebarSelectedArchitect, architect))
  /\ lastEvent' = "handleSidebarArchitectSelect"
  /\ UNCHANGED <<appVars, searchVars, currentIndex, showConfirmModal, tagToSearch,
                 imageLoading, imageError, isSidebarOpen, sidebarSelectedTags,
                 effectVars>>

\* mutant of handleUpdateSearch: commits a draft that matches nothing
handleUpdateSearch_commitsEmpty ==
  /\ ResultsPageReady
  /\ ~(Cardinality(sidebarSelectedTags) = 0 /\ ~Truthy(sidebarSelectedArchitect))
  /\ LET newCriteria == [tags |-> sidebarSelectedTags, architect |-> sidebarSelectedArchitect]
     IN  IF Len(ProspectiveResults(newCriteria)) >= 0
           THEN /\ App_handleSearch_fromResultsPage(newCriteria)
                /\ commitValidated' = TRUE /\ UNCHANGED leftSession
                /\ isSidebarOpen' = FALSE
                /\ sidebarSearchError' = NULL
           ELSE /\ sidebarSearchError' = SidebarErrorMsg
                /\ UNCHANGED <<appVars, effectVars, isSidebarOpen>>
  /\ lastEvent' = "handleUpdateSearch"
  /\ UNCHANGED <<searchVars, currentIndex, showConfirmModal, tagToSearch, imageLoading,
                 imageError, sidebarSelectedTags, sidebarSelectedArchitect>>

\* mutant of handleUpdateSearch: the sidebar stays open after a commit
handleUpdateSearch_keepsSidebar ==
  /\ ResultsPageReady
  /\ ~(Cardinality(sidebarSelectedTags) = 0 /\ ~Truthy(sidebarSelectedArchitect))
  /\ LET newCriteria == [tags |-> sidebarSelectedTags, architect |-> sidebarSelectedArchitect]
     IN  IF Len(ProspectiveResults(newCriteria)) > 0
           THEN /\ App_handleSearch_fromResultsPage(newCriteria)
                /\ commitValidated' = TRUE /\ UNCHANGED leftSession
                /\ sidebarSearchError' = NULL
                /\ UNCHANGED isSidebarOpen
           ELSE /\ sidebarSearchError' = SidebarErrorMsg
                /\ UNCHANGED <<appVars, effectVars, isSidebarOpen>>
  /\ lastEvent' = "handleUpdateSearch"
  /\ UNCHANGED <<searchVars, currentIndex, showConfirmModal, tagToSearch, imageLoading,
                 imageError, sidebarSelectedTags, sidebarSelectedArchitect>>

\* the "Update Search" button; disabled while the sidebar draft is empty
handleUpdateSearch ==
  /\ ResultsPageReady
  /\ ~(Cardinality(sidebarSelectedTags) = 0 /\ ~Truthy(sidebarSelectedArchitect))
  /\ LET newCriteria == [tags |-> sidebarSelectedTags, architect |-> sidebarSelectedArchitect]
     IN  IF Len(ProspectiveResults(newCriteria)) > 0
           THEN /\ App_handleSearch_fromResultsPage(newCriteria)
                /\ commitValidated' = TRUE /\ UNCHANGED leftSession
                /\ isSidebarOpen' = FALSE
                /\ sidebarSearchError' = NULL
           ELSE /\ sidebarSearchError' = SidebarErrorMsg
                /\ UNCHANGED <<appVars, effectVars, isSidebarOpen>>
  /\ lastEvent' = "handleUpdateSearch"
  /\ UNCHANGED <<searchVars, currentIndex, showConfirmModal, tagToSearch, imageLoading,
                 imageError, sidebarSelectedTags, sidebarSelectedArchitect>>

\* mutant of RunEffects: the re-seed of the sidebar draft is missing
RunEffects_noReseed ==
  /\ ~loading /\ error = NULL
  /\ EffectsPending
  /\ IF criteriaDirty
       THEN currentIndex' = 0
       ELSE UNCHANGED currentIndex
  /\ UNCHANGED <<sidebarSelectedTags, sidebarSelectedArchitect>>
  /\ IF imageDeps # <<currentIndex, currentImage>> /\ currentImage # NoImage
       THEN imageLoading' = TRUE /\ imageError' = FALSE
       ELSE UNCHANGED <<imageLoading, imageError>>
  /\ criteriaDirty' = FALSE
  /\ imageDeps' = <<currentIndex, currentImage>>
  /\ UNCHANGED commitValidated
  /\ leftSession' = FALSE
  /\ UNCHANGED <<appVars, searchVars, showConfirmModal, tagToSearch, isSidebarOpen,
                 sidebarSearchError, lastEvent>>

\* mutant of RunEffects: the per-image reset effect is missing
RunEffects_noImageReset ==
  /\ ~loading /\ error = NULL
  /\ EffectsPending
  /\ IF criteriaDirty
       THEN /\ sidebarSelectedTags' = currentSearchCriteria.tags
            /\ sidebarSelectedArchitect' = OrNull(currentSearchCriteria.architect)
            /\ currentIndex' = 0
       ELSE UNCHANGED <<sidebarSelectedTags, sidebarSelectedArchitect, currentIndex>>
  /\ UNCHANGED <<imageLoading, imageError>>
  /\ criteriaDirty' = FALSE
  /\ imageDeps' = <<currentIndex, currentImage>>
  /\ UNCHANGED commitValidated
  /\ leftSession' = FALSE
  /\ UNCHANGED <<appVars, searchVars, showConfirmModal, tagToSearch, isSidebarOpen,
                 sidebarSearchError, lastEvent>>

\* mutant of RunEffects: the cursor-reset effect is missing
RunEffects_noCursorReset ==
  /\ ~loading /\ error = NULL
  /\ EffectsPending
  /\ IF criteriaDirty
       THEN /\ sidebarSelectedTags' = currentSearchCriteria.tags
            /\ sidebarSelectedArchitect' = OrNull(currentSearchCriteria.architect)
       ELSE UNCHANGED <<sidebarSelectedTags, sidebarSelectedArchitect>>
  /\ UNCHANGED currentIndex
  /\ IF imageDeps # <<currentIndex, currentImage>> /\ currentImage # NoImage
       THEN imageLoading' = TRUE /\ imageError' = FALSE
       ELSE UNCHANGED <<imageLoading, imageError>>
  /\ criteriaDirty' = FALSE
  /\ imageDeps' = <<currentIndex, currentImage>>
  /\ UNCHANGED commitValidated
  /\ leftSession' = FALSE
  /\ UNCHANGED <<appVars, searchVars, showConfirmModal, tagToSearch, isSidebarOpen,
                 sidebarSearchError, lastEvent>>

\* The useEffect callbacks of the ResultsPage that are due after a render, in
\* declaration order: re-seed of the sidebar draft and cursor reset (deps
\* [searchCriteria]), per-image reset (deps [currentIndex, currentImage]).
RunEffects ==
  /\ ~loading /\ error = NULL
  /\ EffectsPending
  /\ IF criteriaDirty
       THEN /\ sidebarSelectedTags' = currentSearchCriteria.tags
            /\ sidebarSelectedArchitect' = OrNull(currentSearchCriteria.architect)
            /\ currentIndex' = 0
       ELSE UNCHANGED <<sidebarSelectedTags, sidebarSelectedArchitect, currentIndex>>
  /\ IF imageDeps # <<currentIndex, currentImage>> /\ currentImage # NoImage
       THEN imageLoading' = TRUE /\ imageError' = FALSE
       ELSE UNCHANGED <<imageLoading, imageError>>
  /\ criteriaDirty' = FALSE
  /\ imageDeps' = <<currentIndex, currentImage>>
  /\ UNCHANGED commitValidated
  /\ leftSession' = FALSE
  /\ UNCHANGED <<appVars, searchVars, showConfirmModal, tagToSearch, isSidebarOpen,
                 sidebarSearchError, lastEvent>>

\* ------------------------------------------------------------------- Next
Next ==
  \/ \E n \in 0..MaxImages : LoadData(n)
  \/ \E msg \in LoadErrors : LoadError(msg)
  \/ \E tag \in TaxonomyTags : handleTagSelect(tag)
  \/ \E architect \in uniqueArchitects(appData.images) \cup {NULL} : handleArchitectSelect(architect)
  \/ \E tag \in selectedTags : removeTag(tag)
  \/ removeArchitect
  \/ \E key \in SlotKeys : \E value \in SlotOptions(key) : handleSlotSelect(key, value)
  \/ \E key \in SlotKeys : handleSlotClear(key)
  \/ advancedSearch
  \/ FilterSentence_handleSearch
  \/ handleNext
  \/ handlePrevious
  \/ \E tag \in currentImage.tags : handleOtherTagClick(tag)
  \/ confirmNewSearch
  \/ cancelNewSearch
  \/ handleImageLoad
  \/ handleImageError
  \/ toggleSidebar
  \/ \E tag \in TaxonomyTags : handleSidebarTagSelect(tag)
  \/ \E architect \in uniqueArchitects(appData.images) \cup {NULL} : handleSidebarArchitectSelect(architect)
  \/ handleUpdateSearch
  \/ handleHome
  \/ RunEffects

Spec == Init /\ [][Next]_vars

\* ======================================================== claim formulas
\* The match relation as the specification states it (spec.md section 3).
MatchRelation(img, c) ==
  /\ c.tags \subseteq (IF img.hasTags THEN img.tags ELSE {})
  /\ c.architect = NULL \/ img.architect = c.architect

MatchingImages(c) ==
  LET Test(img) == MatchRelation(img, c) IN SelectSeq(appData.images, Test)

MatchCount(c) == Len(MatchingImages(c))

\* every criterion the selection surfaces or a pivot can build
CandidateCriteria ==
  [tags : SUBSET TaxonomyTags, architect : uniqueArchitects(appData.images) \cup {NULL}]

\* the step is the event handler called name (effects never run in such a step)
UserStep(name) == lastEvent' = name /\ ~EffectsPending

AdvancedCandidate == [tags |-> selectedTags, architect |-> selectedArchitect]
SidebarCandidate  == [tags |-> sidebarSelectedTags, architect |-> sidebarSelectedArchitect]

\* C1: each of the three filter evaluations (search-page submit, results-page
\* filteredImages, sidebar Update Search) selects exactly the images that
\* contain every tag of the criterion and whose architect equals the
\* criterion's architect when it has one; the empty criterion selects all.
C1_FilterSemantics ==
  (~loading) =>
    /\ \A c \in CandidateCriteria :
         /\ SearchPageResults(c) = MatchingImages(c)
         /\ FilteredImagesFor(c) = MatchingImages(c)
         /\ ProspectiveResults(c) = MatchingImages(c)
    /\ SearchPageResults(EmptyCriteria) = appData.images
    /\ FilteredImagesFor(EmptyCriteria) = appData.images
    /\ ProspectiveResults(EmptyCriteria) = appData.images

C1_Witness ==
  /\ view = "results" /\ lastEvent = "handleUpdateSearch" /\ sidebarSearchError = NULL
  /\ currentSearchCriteria.tags # {} /\ currentSearchCriteria.architect # NULL
  /\ totalImages > 0 /\ totalImages < Len(appData.images)

\* C2: a submit whose candidate matches zero images (advanced search, quick
\* search, sidebar Update Search) leaves the active criterion and the view
\* unchanged and sets the error of the submitting surface.
C2_RejectedSubmit ==
  [][ /\ (UserStep("advancedSearch") /\ MatchCount(AdvancedCandidate) = 0)
           => /\ currentSearchCriteria' = currentSearchCriteria
              /\ view' = view
              /\ searchError' = SearchPageErrorMsg
      /\ (UserStep("quickSearch") /\ MatchCount(SlotCriteria) = 0)
           => /\ currentSearchCriteria' = currentSearchCriteria
              /\ view' = view
              /\ searchError' = SearchPageErrorMsg
      /\ (UserStep("handleUpdateSearch") /\ MatchCount(SidebarCandidate) = 0)
           => /\ currentSearchCriteria' = currentSearchCriteria
              /\ view' = view
              /\ sidebarSearchError' = SidebarErrorMsg
    ]_vars

C2_Witness ==
  /\ view = "results" /\ lastEvent = "handleUpdateSearch"
  /\ sidebarSearchError = SidebarErrorMsg
  /\ MatchCount(SidebarCandidate) = 0
  /\ currentSearchCriteria # SidebarCandidate

\* C3: a submit whose candidate matches at least one image makes the
\* candidate the active criterion with the view on results; a sidebar
\* submit also closes the sidebar.
C3_AcceptedSubmit ==
  [][ /\ (UserStep("advancedSearch") /\ MatchCount(AdvancedCandidate) > 0)
           => /\ currentSearchCriteria' = AdvancedCandidate
              /\ view' = "results"
      /\ (UserStep("quickSearch") /\ MatchCount(SlotCriteria) > 0)
           => /\ currentSearchCriteria' = SlotCriteria
              /\ view' = "results"
      /\ (UserStep("handleUpdateSearch") /\ MatchCount(SidebarCandidate) > 0)
           => /\ currentSearchCriteria' = SidebarCandidate
              /\ view' = "results"
              /\ isSidebarOpen' = FALSE
    ]_vars

C3_Witness ==
  /\ view = "results" /\ lastEvent = "handleUpdateSearch"
  /\ criteriaDirty /\ ~isSidebarOpen
  /\ currentSearchCriteria = SidebarCandidate
  /\ currentIndex > 0

\* C4: in every state of the results view with a non-empty filtered list the
\* cursor satisfies 0 <= index < length(filteredImages), the state right
\* after a replacement of the active criterion included.
C4_CursorInRange ==
  (view = "results" /\ totalImages > 0)
    => (0 <= currentIndex /\ currentIndex < totalImages)

\* C5: whenever the active criterion is replaced in the results view, a
\* cursor reset is due, and from a state where it is due the only step is
\* the one that runs it, which sets the cursor to 0: no user event
\* intervenes.
C5_CursorReset ==
  [][ /\ (view = "results" /\ view' = "results"
            /\ currentSearchCriteria' # currentSearchCriteria) => criteriaDirty'
      /\ (view = "results" /\ criteriaDirty)
           => (currentIndex' = 0 /\ ~criteriaDirty' /\ lastEvent' = lastEvent)
    ]_vars

C5_Witness ==
  /\ view = "results" /\ criteriaDirty /\ currentIndex > 0
  /\ lastEvent \in {"handleUpdateSearch", "confirmNewSearch"}

\* k consecutive next() calls from cursor i over a list of length total
RECURSIVE NextTimes(_, _, _)
NextTimes(i, total, k) ==
  IF k = 0 THEN i ELSE NextTimes(NextIndex(i, total), total, k - 1)

\* C6: for the filtered list of length N > 0 of the results view and any
\* starting cursor, N consecutive next() calls return to the start, next()
\* from N-1 yields 0 and previous() from 0 yields N-1; a next or previous
\* step moves the cursor by exactly that rule.
C6_Wraparound ==
  (view = "results" /\ totalImages > 0) =>
    /\ \A start \in 0..(totalImages - 1) :
         /\ NextTimes(start, totalImages, totalImages) = start
         /\ NextIndex(start, totalImages) \in 0..(totalImages - 1)
         /\ PreviousIndex(NextIndex(start, totalImages), totalImages) = start
    /\ NextIndex(totalImages - 1, totalImages) = 0
    /\ PreviousIndex(0, totalImages) = totalImages - 1

C6_Witness ==
  /\ view = "results" /\ ~EffectsPending
  /\ lastEvent = "handleNext" /\ totalImages >= 2 /\ currentIndex = 0

\* C7: confirming a tag-pivot for tag t makes the active criterion exactly
\* {tags: {t}, architect: null} with the view on results, whatever the
\* active criterion and the sidebar draft held.
C7_PivotCriterion ==
  [][ (UserStep("confirmNewSearch") /\ showConfirmModal /\ tagToSearch # NULL)
        => /\ currentSearchCriteria' = [tags |-> {tagToSearch}, architect |-> NULL]
           /\ view' = "results"
    ]_vars

C7_Witness ==
  /\ view = "results" /\ lastEvent = "confirmNewSearch" /\ criteriaDirty
  /\ Cardinality(currentSearchCriteria.tags) = 1
  /\ currentSearchCriteria.architect = NULL
  /\ sidebarSelectedArchitect # NULL
  /\ sidebarSelectedTags # currentSearchCriteria.tags

\* C8: selecting a tag of the displayed image only records it as the pending
\* pivot (modal open); Cancel only returns the pivot state to Idle. Neither
\* changes the active criterion, the view, the cursor or the sidebar draft.
C8_PivotFrame ==
  [][ /\ UserStep("handleOtherTagClick")
           => /\ showConfirmModal' /\ tagToSearch' \in currentImage.tags
              /\ UNCHANGED <<currentSearchCriteria, view, currentIndex,
                             sidebarSelectedTags, sidebarSelectedArchitect>>
      /\ UserStep("cancelNewSearch")
           => /\ ~showConfirmModal' /\ tagToSearch' = NULL
              /\ UNCHANGED <<currentSearchCriteria, view, currentIndex,
                             sidebarSelectedTags, sidebarSelectedArchitect>>
    ]_vars

C8_Witness ==
  /\ view = "results" /\ lastEvent = "cancelNewSearch"
  /\ ~showConfirmModal /\ tagToSearch = NULL
  /\ currentIndex > 0
  /\ SidebarCandidate # currentSearchCriteria

CommitEvents == {"advancedSearch", "quickSearch", "handleUpdateSearch", "confirmNewSearch"}

\* C9 (as stated): after the load, the active criterion and the view change
\* only in a commit step of a submit that matched at least one image.
C9_OnlyCommitChanges ==
  [][ ((~loading) /\ (currentSearchCriteria' # currentSearchCriteria \/ view' # view))
        => /\ lastEvent' \in CommitEvents
           /\ MatchCount(currentSearchCriteria') > 0
           /\ view' = "results"
    ]_vars

\* C9 (amended): after the load, the active criterion and the view change
\* only in a commit step of a submit that matched at least one image, or by
\* Home, which sets the view to search and the active criterion to empty.
C9_OnlyCommitOrHomeChanges ==
  [][ ((~loading) /\ (currentSearchCriteria' # currentSearchCriteria \/ view' # view))
        => \/ /\ UserStep("handleHome")
              /\ view = "results" /\ view' = "search"
              /\ currentSearchCriteria' = EmptyCriteria
           \/ /\ \E e \in CommitEvents : UserStep(e)
              /\ MatchCount(currentSearchCriteria') > 0
              /\ view' = "results"
    ]_vars

C9_Witness ==
  /\ lastEvent = "handleHome" /\ view = "search" /\ ~loading
  /\ currentSearchCriteria = EmptyCriteria

\* C10: with the dataset fixed after the load, the results view never shows
\* an empty filtered list.
C10_ResultsNeverEmpty ==
  view = "results" => totalImages > 0

C10_Witness ==
  /\ view = "results" /\ lastEvent = "confirmNewSearch" /\ ~EffectsPending
  /\ totalImages = 1 /\ Len(appData.images) >= 2

\* C11: the empty criterion is never committed by the quick search, the
\* advanced search, the sidebar Update Search or a tag-pivot: while the view
\* is results the active criterion has a tag or an architect.
C11_NeverEmptyCriterion ==
  view = "results" =>
    (Cardinality(currentSearchCriteria.tags) > 0 \/ Truthy(currentSearchCriteria.architect))

C11_Witness ==
  /\ view = "results" /\ lastEvent = "quickSearch"
  /\ currentSearchCriteria.tags = {}
  /\ currentSearchCriteria.architect # NULL

\* C12: a tag toggle applied twice in succession restores the selected tag
\* set: after every toggle step of the search page or of the sidebar,
\* toggling the same tag again yields the set held before the step.
C12_ToggleTwice ==
  [][ /\ UserStep("handleTagSelect")
           => \E tag \in TaxonomyTags :
                /\ selectedTags' = toggleTag(selectedTags, tag)
                /\ selectedTags' # selectedTags
                /\ toggleTag(selectedTags', tag) = selectedTags
      /\ UserStep("handleSidebarTagSelect")
           => \E tag \in TaxonomyTags :
                /\ sidebarSelectedTags' = sidebarToggleTag(sidebarSelectedTags, tag)
                /\ sidebarSelectedTags' # sidebarSelectedTags
                /\ sidebarToggleTag(sidebarSelectedTags', tag) = sidebarSelectedTags
    ]_vars

C12_Witness ==
  /\ view = "results" /\ lastEvent = "handleSidebarTagSelect" /\ ~EffectsPending
  /\ sidebarSelectedTags = {}
  /\ currentSearchCriteria.tags # {}

\* C13: a failed dataset fetch (network failure, HTTP status, malformed
\* JSON, missing field) ends in the error state with the message of its
\* cause and an empty dataset; no step leaves the error state (no retry, no
\* search or results view afterwards); while the fetch is pending only the
\* loading state is rendered and the only step is the one that settles it.
C13_LoadFailure ==
  [][ /\ error = NULL
      /\ loading => /\ Rendered = "loading"
                    /\ ~loading'
                    /\ lastEvent' \in {"loadData", "loadError"}
      /\ lastEvent' = "loadError"
           => /\ error' \in LoadErrors
              /\ appData' = [taxonomy |-> <<>>, images |-> <<>>]
              /\ Rendered' = "error"
      /\ error' # NULL => lastEvent' = "loadError"
    ]_vars

C13_Witness ==
  /\ lastEvent = "loadError" /\ error \in LoadErrors /\ ~loading
  /\ Rendered = "error" /\ appData.images = <<>> /\ appData.taxonomy = <<>>

SearchSelectionEvents ==
  {"handleTagSelect", "handleArchitectSelect", "removeTag", "removeArchitect",
   "handleSlotSelect", "handleSlotClear"}

SidebarSelectionEvents == {"handleSidebarTagSelect", "handleSidebarArchitectSelect"}

\* C14: the error of a submitting surface is cleared by the next change the
\* user makes to that surface's selection (toggling or removing a tag,
\* choosing or removing an architect, changing a quick-search slot).
C14_ErrorClearedOnChange ==
  [][ /\ (\E e \in SearchSelectionEvents : UserStep(e)) => searchError' = NULL
      /\ (\E e \in SidebarSelectionEvents : UserStep(e)) => sidebarSearchError' = NULL
    ]_vars

PivotCandidate == [tags |-> {tagToSearch}, architect |-> NULL]

\* C15 (as stated): a confirmed tag-pivot evaluates its criterion against the
\* full image list before it commits, commits only a criterion with at least
\* one match, and otherwise leaves the active criterion and the view
\* unchanged and surfaces an error.
C15_PivotValidated ==
  [][ (UserStep("confirmNewSearch") /\ showConfirmModal /\ tagToSearch # NULL)
        => /\ criteriaDirty' => /\ commitValidated'
                                /\ MatchCount(currentSearchCriteria') > 0
                                /\ view' = "results"
           /\ MatchCount(PivotCandidate) = 0
                => /\ currentSearchCriteria' = currentSearchCriteria
                   /\ view' = view
                   /\ ~criteriaDirty'
                   /\ sidebarSearchError' # NULL
    ]_vars

\* C15 (amended): a confirmed tag-pivot commits its criterion without
\* evaluating it; the criterion always matches at least one image of the
\* full image list, so the commit always takes place, the view stays on
\* results and no error is surfaced or cleared.
C15_PivotCommit ==
  [][ (UserStep("confirmNewSearch") /\ showConfirmModal /\ tagToSearch # NULL)
        => /\ MatchCount(PivotCandidate) > 0
           /\ criteriaDirty' /\ ~commitValidated'
           /\ MatchCount(currentSearchCriteria') > 0
           /\ view' = "results"
           /\ UNCHANGED <<searchError, sidebarSearchError>>
    ]_vars

C15_Witness ==
  /\ view = "results" /\ lastEvent = "confirmNewSearch" /\ criteriaDirty
  /\ Cardinality(currentSearchCriteria.tags) = 1
  /\ totalImages > 0 /\ totalImages < Len(appData.images)
  /\ currentIndex > 0

ArchitectOptions == uniqueArchitects(appData.images) \cup {NULL}

\* what the claim expects of a click on the radio button of architect a
ArchitectToggle(selected, a) == IF selected = a THEN NULL ELSE a

\* C16: in the search-page selection and in the sidebar selection, a click
\* on the selected architect clears the architect, a click on another
\* architect replaces it, and the selection holds at most one architect.
C16_ArchitectToggle ==
  [][ /\ UserStep("handleArchitectSelect")
           => \E a \in ArchitectOptions : selectedArchitect' = ArchitectToggle(selectedArchitect, a)
      /\ UserStep("handleSidebarArchitectSelect")
           => \E a \in ArchitectOptions :
                sidebarSelectedArchitect' = ArchitectToggle(sidebarSelectedArchitect, a)
      /\ \A a \in ArchitectOptions :
           /\ ArchitectSelector_handleChange(selectedArchitect, a)
                = ArchitectToggle(selectedArchitect, a)
           /\ SidebarArchitectAfter(ArchitectSelector_handleChange(sidebarSelectedArchitect, a))
                = ArchitectToggle(sidebarSelectedArchitect, a)
      /\ selectedArchitect' \in ArchitectOptions'
      /\ sidebarSelectedArchitect' \in ArchitectOptions'
    ]_vars

C16_Witness ==
  /\ view = "results" /\ lastEvent = "handleSidebarArchitectSelect" /\ ~EffectsPending
  /\ sidebarSelectedArchitect = NULL
  /\ currentSearchCriteria.architect # NULL

\* C17: the sidebar draft equals the active criterion when the results view
\* is entered, and every change of the active criterion makes the re-seed
\* effect due, which runs before any further user step and sets the draft to
\* the active criterion, so that after a confirmed tag-pivot the draft is the
\* pivot criterion whatever had been edited in the sidebar.
C17_SidebarReseed ==
  [][ /\ (view # "results" /\ view' = "results") => SidebarCandidate' = currentSearchCriteria'
      /\ (view = "results" /\ view' = "results" /\ currentSearchCriteria' # currentSearchCriteria)
           => criteriaDirty' /\ EffectsPending'
      /\ criteriaDirty
           => /\ EffectsPending
              /\ SidebarCandidate' = currentSearchCriteria'
              /\ ~criteriaDirty'
              /\ UNCHANGED <<currentSearchCriteria, view, lastEvent>>
      /\ (lastEvent' = "confirmNewSearch" /\ ~criteriaDirty')
           => SidebarCandidate' = currentSearchCriteria'
    ]_vars

C17_Witness ==
  /\ view = "results" /\ lastEvent = "confirmNewSearch" /\ ~EffectsPending
  /\ sidebarSearchError # NULL
  /\ SidebarCandidate = currentSearchCriteria
  /\ currentSearchCriteria.architect = NULL

\* C18: a draft operation of the sidebar changes nothing but the sidebar
\* draft and its error message (active criterion, view, cursor, filtered
\* list, image list and the search form's selection keep their values), and
\* a draft operation of the search page changes nothing but the search
\* page's selection and its error message.
C18_DraftFrame ==
  [][ /\ (\E e \in SidebarSelectionEvents : UserStep(e))
           => /\ UNCHANGED <<appVars, searchVars, currentIndex, showConfirmModal, tagToSearch,
                             imageLoading, imageError, isSidebarOpen, effectVars>>
              /\ filteredImages' = filteredImages
              /\ view = "results"
      /\ (\E e \in SearchSelectionEvents : UserStep(e))
           => /\ UNCHANGED <<appVars, resultsVars, effectVars>>
              /\ view = "search"
      /\ (\E e \in {"handleTagSelect", "handleArchitectSelect", "removeTag", "removeArchitect"} :
            UserStep(e)) => UNCHANGED slotValues
      /\ (\E e \in {"handleSlotSelect", "handleSlotClear"} : UserStep(e))
           => UNCHANGED <<selectedTags, selectedArchitect>>
    ]_vars

C18_Witness ==
  /\ view = "results" /\ lastEvent \in SidebarSelectionEvents /\ ~EffectsPending
  /\ SidebarCandidate # currentSearchCriteria
  /\ MatchCount(SidebarCandidate) > 0
  /\ currentIndex > 0

\* C19: a step that changes the cursor or the displayed image of the results
\* view to another image makes the per-image reset due; the due reset runs
\* before any further user step and sets imageLoading to true and imageError
\* to false; an image load or load-error event changes only imageLoading and
\* imageError.  (The displayed image is a function of the image list, the
\* active criterion and the cursor, and the image list is fixed while the
\* results are shown, so a change of the displayed pair is a change of the
\* cursor or of the criterion.)
C19_PerImageState ==
  [][ /\ (view = "results" /\ view' = "results"
          /\ (currentIndex' # currentIndex \/ currentSearchCriteria' # currentSearchCriteria)
          /\ <<currentIndex, currentImage>>' # <<currentIndex, currentImage>>
          /\ currentImage' # NoImage)
           => /\ imageDeps' # <<currentIndex, currentImage>>'
              /\ EffectsPending'
      /\ (view = "results" /\ view' = "results"
          /\ currentIndex' = currentIndex /\ currentSearchCriteria' = currentSearchCriteria)
           => appData' = appData
      /\ (view # "results" /\ view' = "results") => imageLoading' /\ ~imageError'
      /\ lastEvent' # lastEvent => ~EffectsPending
      /\ (~(imageLoading' /\ ~imageError'))
           => ~(EffectsPending /\ imageDeps # <<currentIndex, currentImage>>
                /\ currentImage # NoImage)
      /\ (UserStep("handleNext") /\ totalImages > 1 /\ view = "results")
           => currentIndex' # currentIndex /\ currentImage' # currentImage
      /\ (UserStep("handleImageLoad") \/ UserStep("handleImageError"))
           => /\ UNCHANGED <<appVars, searchVars, currentIndex, showConfirmModal, tagToSearch,
                             isSidebarOpen, sidebarSelectedTags, sidebarSelectedArchitect,
                             sidebarSearchError, effectVars>>
              /\ filteredImages' = filteredImages
              /\ ~imageLoading'
              /\ imageError' = (imageError \/ lastEvent' = "handleImageError")
    ]_vars

C19_Witness ==
  /\ view = "results" /\ lastEvent = "handleNext" /\ ~EffectsPending
  /\ currentIndex > 0
  /\ imageLoading /\ ~imageError
  /\ sidebarSearchError # NULL

\* C20: the confirmation modal is open exactly when a pending pivot tag is
\* recorded, and after Confirm and after Cancel the modal is closed and no
\* tag is pending.
C20_ModalIffPending ==
  [][ /\ showConfirmModal <=> tagToSearch # NULL
      /\ showConfirmModal' <=> tagToSearch' # NULL
      /\ (UserStep("confirmNewSearch") \/ UserStep("cancelNewSearch"))
           => /\ showConfirmModal /\ tagToSearch # NULL
              /\ ~showConfirmModal' /\ tagToSearch' = NULL
    ]_vars

C20_Witness ==
  /\ view = "results" /\ lastEvent = "cancelNewSearch"
  /\ ~showConfirmModal /\ tagToSearch = NULL
  /\ currentIndex > 0

\* the state a ResultsPage instance is constructed with for a criterion
FreshResultsPage(criteria) ==
  /\ currentIndex = 0
  /\ ~showConfirmModal /\ tagToSearch = NULL
  /\ ~isSidebarOpen
  /\ sidebarSearchError = NULL
  /\ SidebarCandidate = criteria

\* C21: Home leaves every results-view state for the search view with the
\* empty criterion and nothing of the ResultsPage kept; every entry into the
\* results view starts with cursor 0, no pending pivot, closed sidebar, no
\* sidebar error and the draft equal to the committed criterion, also when it
\* follows a Home that left a session with a moved cursor, an open sidebar,
\* an edited draft and a pending pivot, and the mount effects keep it so.
C21_HomeResets ==
  [][ /\ UserStep("handleHome")
           => /\ view = "results" /\ view' = "search" /\ Rendered' = "search"
              /\ currentSearchCriteria' = EmptyCriteria
              /\ appData' = appData
      /\ view' # "results"
           => /\ FreshResultsPage(EmptyCriteria)'
              /\ imageLoading' /\ ~imageError' /\ ~criteriaDirty'
      /\ (view # "results" /\ view' = "results")
           => /\ FreshResultsPage(currentSearchCriteria)'
              /\ imageLoading' /\ ~imageError'
              /\ lastEvent' \in {"advancedSearch", "quickSearch"}
              /\ UNCHANGED leftSession
      /\ (view = "results" /\ leftSession)
           => /\ criteriaDirty /\ lastEvent' = lastEvent
              /\ FreshResultsPage(currentSearchCriteria)'
              /\ UNCHANGED <<view, currentSearchCriteria>>
              /\ ~leftSession'
      /\ leftSession' => (leftSession \/ (UserStep("handleHome") /\ SessionInUse))
    ]_vars

C21_Witness ==
  /\ view = "results" /\ leftSession
  /\ lastEvent \in {"advancedSearch", "quickSearch"}
  /\ FreshResultsPage(currentSearchCriteria)
  /\ totalImages > 1

====
